---- MODULE Spec2Model ----
(***************************************************************************)
(* Textify WebSocket server (src/unnamed/part_003): single-slot            *)
(* matchmaking, symmetric pair table, relay, moderation, reports and bans. *)
(* Every handler of the server runs to completion on the Node event loop,  *)
(* so each handler is one atomic action.                                   *)
(***************************************************************************)
EXTENDS Integers, Sequences, FiniteSets, TLC

\* ---------------------------------------------------------------- bounds
NumIds == 4          \* identities (one per connection)
MaxActive == 3       \* connections opened where transport events and bans interleave
MaxClients == 2      \* connections opened where admin or moderation inputs vary
NumIps == 2          \* distinct network addresses
MaxTextLen == 2      \* longest message text
MaxReports == 2      \* reports appended during a run
MaxBans == 1         \* entries the ban sets hold at a time

\* ------------------------------------------------------- program constants
REPORT_CAP == 5000   \* report_user: if (reports.length > 5000) reports.pop()
AUTO_CAP == 1000     \* auto moderation: if (reports.length > 1000) reports.pop()

\* ---------------------------------------------------------------- values
Ids == 1..NumIds
Active == 1..MaxActive
Clients == 1..MaxClients
Ips == 1..NumIps
Null == 0                      \* JavaScript null / undefined / absent field
Undefined == "undefined"       \* an absent string field (adminKey, env var)
Keys == {"k1", "k2"}

\* req.socket.remoteAddress of connection i (fixed per connection)
clientIp(i) == ((i - 1) % NumIps) + 1

VARIABLES
  sock,               \* transport of each connection, see readyState
  waitingUser,        \* let waitingUser = null  |  { id, socket }
  activeConnections,  \* Map userId -> { socket, partnerId }
  bans,               \* { ips, userIds }
  reports,            \* entries unshifted since start, most recent first
  oldReports,         \* number of entries loaded from reports.json still in the log
  BAD_WORDS,          \* Set of lower-cased blocked substrings
  ADMIN_KEY,          \* process.env.ADMIN_KEY
  isAlive,            \* socket.isAlive of the sockets that have the property
  ev,                 \* the event the last handler run processed
  sent,               \* socket.send calls of the last handler run, in order
  displaced           \* observer: identities overwritten in the slot as stale

vars == <<sock, waitingUser, activeConnections, bans, reports, oldReports,
          BAD_WORDS, ADMIN_KEY, isAlive, ev, sent, displaced>>

\* sock[i]:
\*   "NONE"     not connected yet
\*   "OPEN"     readyState OPEN
\*   "CLOSING"  the server called close(): readyState CLOSING, the close
\*              handshake is not finished, frames of the peer still arrive
\*   "HALF"     the peer closed, the transport failed or was terminated:
\*              readyState CLOSING, nothing arrives any more, 'close' pending
\*   "REFUSED"  banned at connect: closing, no handler was registered
\*   "CLOSED"   'close' has been emitted
OPEN == "OPEN"
readyState(s, i) == IF s[i] = "OPEN" THEN OPEN ELSE "NOT_OPEN"

NoUser == [id |-> Null, socket |-> Null]
EmptyMap == [x \in {} |-> Null]

has(m, k) == k \in DOMAIN m
set(m, k, v) == [x \in (DOMAIN m) \cup {k} |-> IF x = k THEN v ELSE m[x]]
delete(m, k) == [x \in (DOMAIN m) \ {k} |-> m[x]]

\* one socket.send call: JSON of { type, ... } written to the socket of `to`
Msg(to, type, arg) == [to |-> to, type |-> type, arg |-> arg]

\* ------------------------------------------------------------ moderation
toLowerCase(t) == [k \in 1..Len(t) |-> IF t[k] = "A" THEN "a" ELSE t[k]]

\* String.prototype.includes
includes(t, w) == \E k \in 0..(Len(t) - Len(w)) : SubSeq(t, k + 1, k + Len(w)) = w

\* the word lists badwords.json may hold
WordFiles == { {}, {<<"A">>}, {<<>>, <<"a", "b">>} }

loadBadWordsSet(words) == {toLowerCase(w) : w \in words}

\* seeded fault: the text is compared without lower-casing it
containsBadWord_CaseSensitive(words, text) ==
  IF text = <<>> THEN FALSE
  ELSE \E w \in words : w # <<>> /\ includes(text, w)

containsBadWord(words, text) ==
  IF text = <<>> THEN FALSE
  ELSE LET lower == toLowerCase(text)
       IN \E w \in words : w # <<>> /\ includes(lower, w)

\* --------------------------------------------------------------- reports
\* The log is  reports \o (oldReports entries read from reports.json).
length(log) == Len(log.new) + log.old
unshift(log, e) == [log EXCEPT !.new = <<e>> \o @]
pop(log) ==
  IF log.old > 0 THEN [log EXCEPT !.old = @ - 1]
  ELSE IF log.new = <<>> THEN log
  ELSE [log EXCEPT !.new = SubSeq(@, 1, Len(@) - 1)]

\* seeded fault: the log is never trimmed
append_NoPop(log, e, cap) == unshift(log, e)

\* reports.unshift(e); if (reports.length > cap) reports.pop();
append(log, e, cap) ==
  LET l1 == unshift(log, e) IN IF length(l1) > cap THEN pop(l1) ELSE l1

\* ----------------------------------------------------------- matchmaking
\* st = [ac |-> activeConnections, wu |-> waitingUser, out |-> sends so far]
\* s is the transport state the handler sees; a socket is named by the
\* connection it belongs to.
\* seeded fault: only the requester's entry is written when a pair is made
findPartner_OneSided(st, s, userId) ==
  IF has(st.ac, userId) THEN st
  ELSE IF st.wu # NoUser /\ st.wu.id # userId
  THEN IF readyState(s, st.wu.socket) # OPEN
       THEN [st EXCEPT !.wu = [id |-> userId, socket |-> userId],
                       !.out = Append(@, Msg(userId, "searching", Null))]
       ELSE [ac |-> set(st.ac, userId, [socket |-> userId, partnerId |-> st.wu.id]),
             out |-> st.out \o <<Msg(userId, "partner_found", st.wu.id),
                                 Msg(st.wu.socket, "partner_found", userId)>>,
             wu |-> NoUser]
  ELSE [st EXCEPT !.wu = [id |-> userId, socket |-> userId],
                  !.out = Append(@, Msg(userId, "searching", Null))]

\* seeded fault: the waiter stays in the slot after it has been paired
findPartner_KeepsSlot(st, s, userId) ==
  IF has(st.ac, userId) THEN st
  ELSE IF st.wu # NoUser /\ st.wu.id # userId
  THEN IF readyState(s, st.wu.socket) # OPEN
       THEN [st EXCEPT !.wu = [id |-> userId, socket |-> userId],
                       !.out = Append(@, Msg(userId, "searching", Null))]
       ELSE [ac |-> set(set(st.ac, userId,
                            [socket |-> userId, partnerId |-> st.wu.id]),
                        st.wu.id,
                        [socket |-> st.wu.socket, partnerId |-> userId]),
             out |-> st.out \o <<Msg(userId, "partner_found", st.wu.id),
                                 Msg(st.wu.socket, "partner_found", userId)>>,
             wu |-> st.wu]
  ELSE [st EXCEPT !.wu = [id |-> userId, socket |-> userId],
                  !.out = Append(@, Msg(userId, "searching", Null))]

\* seeded fault: the requester takes the slot from any waiter, stale or not
findPartner_TakesSlot(st, s, userId) ==
  IF has(st.ac, userId) THEN st
  ELSE [st EXCEPT !.wu = [id |-> userId, socket |-> userId],
                  !.out = Append(@, Msg(userId, "searching", Null))]

findPartner(st, s, userId) ==
  IF has(st.ac, userId) THEN st
  ELSE IF st.wu # NoUser /\ st.wu.id # userId
  THEN LET partnerId == st.wu.id
           partnerSocket == st.wu.socket
       IN IF readyState(s, partnerSocket) # OPEN
          THEN [st EXCEPT !.wu = [id |-> userId, socket |-> userId],
                          !.out = Append(@, Msg(userId, "searching", Null))]
          ELSE [ac |-> set(set(st.ac, userId,
                               [socket |-> userId, partnerId |-> partnerId]),
                           partnerId,
                           [socket |-> partnerSocket, partnerId |-> userId]),
                out |-> st.out \o <<Msg(userId, "partner_found", partnerId),
                                    Msg(partnerSocket, "partner_found", userId)>>,
                wu |-> NoUser]
  ELSE [st EXCEPT !.wu = [id |-> userId, socket |-> userId],
                  !.out = Append(@, Msg(userId, "searching", Null))]

\* seeded fault: the relay functions do not test readyState
partnerOpen_NoStateCheck(ac, s, userId) ==
  /\ has(ac, userId)
  /\ ac[userId].partnerId # Null
  /\ has(ac, ac[userId].partnerId)

\* the partner's entry when the relay functions may write to its socket
partnerOpen(ac, s, userId) ==
  /\ has(ac, userId)
  /\ ac[userId].partnerId # Null
  /\ has(ac, ac[userId].partnerId)
  /\ readyState(s, ac[ac[userId].partnerId].socket) = OPEN

sendToPartner(ac, s, userId, text) ==
  IF partnerOpen(ac, s, userId)
  THEN <<Msg(ac[ac[userId].partnerId].socket, "message", [text |-> text])>>
  ELSE <<>>

notifyTyping(ac, s, userId, isTyping) ==
  IF partnerOpen(ac, s, userId)
  THEN <<Msg(ac[ac[userId].partnerId].socket, "typing", [isTyping |-> isTyping])>>
  ELSE <<>>

\* seeded fault: the envelope is forwarded as received
forwardToPartner_Raw(ac, s, userId, message) ==
  IF partnerOpen(ac, s, userId)
  THEN <<Msg(ac[ac[userId].partnerId].socket, message.type, message)>>
  ELSE <<>>

\* Object.assign({}, message, { from: userId })
forwardToPartner(ac, s, userId, message) ==
  IF partnerOpen(ac, s, userId)
  THEN <<Msg(ac[ac[userId].partnerId].socket, message.type,
             [message EXCEPT !.from = userId])>>
  ELSE <<>>

\* seeded fault: the else-branch clears the slot whoever occupies it
disconnectPair_ClearsAnySlot(st, s, userId) ==
  IF has(st.ac, userId) /\ st.ac[userId].partnerId # Null
  THEN LET conn == st.ac[userId]
           notify == /\ has(st.ac, conn.partnerId)
                     /\ readyState(s, st.ac[conn.partnerId].socket) = OPEN
           ac1 == IF notify THEN delete(st.ac, conn.partnerId) ELSE st.ac
           out1 == IF notify
                   THEN Append(st.out, Msg(st.ac[conn.partnerId].socket,
                                           "partner_disconnected", Null))
                   ELSE st.out
       IN [ac |-> delete(ac1, userId), wu |-> st.wu, out |-> out1]
  ELSE [st EXCEPT !.wu = NoUser]

disconnectPair(st, s, userId) ==
  IF has(st.ac, userId) /\ st.ac[userId].partnerId # Null
  THEN LET conn == st.ac[userId]
           notify == /\ has(st.ac, conn.partnerId)
                     /\ readyState(s, st.ac[conn.partnerId].socket) = OPEN
           ac1 == IF notify THEN delete(st.ac, conn.partnerId) ELSE st.ac
           out1 == IF notify
                   THEN Append(st.out, Msg(st.ac[conn.partnerId].socket,
                                           "partner_disconnected", Null))
                   ELSE st.out
       IN [ac |-> delete(ac1, userId), wu |-> st.wu, out |-> out1]
  ELSE IF st.wu # NoUser /\ st.wu.id = userId
       THEN [st EXCEPT !.wu = NoUser]
       ELSE st

\* seeded fault: the close handler clears the slot and leaves the pair alone
handleDisconnection_SlotOnly(st, s, userId) ==
  IF st.wu # NoUser /\ st.wu.id = userId THEN [st EXCEPT !.wu = NoUser] ELSE st

handleDisconnection(st, s, userId) ==
  LET st1 == IF st.wu # NoUser /\ st.wu.id = userId
             THEN [st EXCEPT !.wu = NoUser] ELSE st
  IN disconnectPair(st1, s, userId)

\* seeded fault: the waiting slot is not cleared
disconnectPair_002_KeepsSlot(st, s, userId) ==
  IF has(st.ac, userId) /\ st.ac[userId].partnerId # Null
  THEN LET conn == st.ac[userId]
           notify == /\ has(st.ac, conn.partnerId)
                     /\ readyState(s, st.ac[conn.partnerId].socket) = OPEN
           out1 == IF notify
                   THEN Append(st.out, Msg(st.ac[conn.partnerId].socket,
                                           "partner_disconnected", Null))
                   ELSE st.out
       IN [ac |-> delete(delete(st.ac, conn.partnerId), userId),
           wu |-> st.wu, out |-> out1]
  ELSE st

\* disconnectPair as the server of part_002 has it: both entries are deleted
\* whether or not the partner's socket is open
disconnectPair_002(st, s, userId) ==
  IF has(st.ac, userId) /\ st.ac[userId].partnerId # Null
  THEN LET conn == st.ac[userId]
           notify == /\ has(st.ac, conn.partnerId)
                     /\ readyState(s, st.ac[conn.partnerId].socket) = OPEN
           out1 == IF notify
                   THEN Append(st.out, Msg(st.ac[conn.partnerId].socket,
                                           "partner_disconnected", Null))
                   ELSE st.out
       IN [ac |-> delete(delete(st.ac, conn.partnerId), userId),
           wu |-> st.wu, out |-> out1]
  ELSE IF st.wu # NoUser /\ st.wu.id = userId
       THEN [st EXCEPT !.wu = NoUser]
       ELSE st

handleDisconnection_002(st, s, userId) ==
  LET st1 == IF st.wu # NoUser /\ st.wu.id = userId
             THEN [st EXCEPT !.wu = NoUser] ELSE st
  IN disconnectPair_002(st1, s, userId)

\* wss.clients: every socket accepted and not yet closed
clients(s) == {i \in Ids : s[i] \in {"OPEN", "CLOSING", "HALF", "REFUSED"}}
getOnlineCount(s) == Cardinality(clients(s))

\* socket.close()
close(s, i) == IF s[i] = "OPEN" THEN [s EXCEPT ![i] = "CLOSING"] ELSE s

\* ------------------------------------------------------------------ state
InitialLogs == {0, AUTO_CAP, REPORT_CAP}     \* sizes of reports.json at start
MsgChars == {"A", "b"}           \* characters clients type
MsgTexts == UNION {[1..n -> MsgChars] : n \in 0..MaxTextLen}

Init ==
  /\ sock = [i \in Ids |-> "NONE"]
  /\ waitingUser = NoUser
  /\ activeConnections = EmptyMap
  /\ bans = [ips |-> {}, userIds |-> {}]
  /\ reports = <<>>
  /\ oldReports \in InitialLogs
  /\ BAD_WORDS \in {loadBadWordsSet(f) : f \in WordFiles}
  /\ ADMIN_KEY \in {Undefined, "k1"}
  /\ ev = [type |-> "start", by |-> Null, arg |-> Null]
  /\ sent = <<>>
  /\ displaced = {}
  /\ isAlive = EmptyMap

Event(type, by, arg) == [type |-> type, by |-> by, arg |-> arg]

\* seeded fault: the message handler is registered before the ban check
Receiving_Refused(i) == sock[i] \in {"OPEN", "CLOSING", "REFUSED"}

\* the 'message' handler of connection i runs: the socket is open, or the
\* server has closed it and the peer's frames are still arriving
Receiving(i) == sock[i] \in {"OPEN", "CLOSING"}

\* new Date(): the clock reads the number of entries written since start
\* (none of them is evicted while Len(reports) <= MaxReports < AUTO_CAP)
now == Len(reports) + 1

store == [ac |-> activeConnections, wu |-> waitingUser, out |-> <<>>]

\* wss.on('connection')
Connect(i) ==
  /\ sock[i] = "NONE"
  /\ LET banned == i \in bans.userIds \/ clientIp(i) \in bans.ips
     IN /\ sock' = [sock EXCEPT ![i] = IF banned THEN "REFUSED" ELSE "OPEN"]
        /\ sent' = IF banned THEN <<Msg(i, "banned", Null)>>
                   ELSE <<Msg(i, "connected", i)>>
        /\ isAlive' = IF banned THEN isAlive ELSE set(isAlive, i, TRUE)
  /\ ev' = Event("connection", i, Null)
  /\ UNCHANGED <<waitingUser, activeConnections, bans, reports, oldReports,
                 BAD_WORDS, ADMIN_KEY, displaced>>

\* case 'find_partner'
FindPartner(i) ==
  /\ Receiving(i)
  /\ LET st == findPartner(store, sock, i)
         stale == /\ ~has(activeConnections, i)
                  /\ waitingUser # NoUser /\ waitingUser.id # i
                  /\ readyState(sock, waitingUser.socket) # OPEN
     IN /\ activeConnections' = st.ac
        /\ waitingUser' = st.wu
        /\ sent' = st.out
        /\ displaced' = IF stale THEN displaced \cup {waitingUser.id} ELSE displaced
  /\ ev' = Event("find_partner", i, Null)
  /\ UNCHANGED <<sock, bans, reports, oldReports, BAD_WORDS, ADMIN_KEY, isAlive>>

\* seeded fault: the report never names the partner
autoReport_NoPartner(ac, userId, text, t) ==
  [reporterId |-> userId,
   reportedId |-> Null,
   reportedIp |-> IF has(ac, userId) THEN clientIp(ac[userId].socket) ELSE Null,
   reason |-> "Auto moderation: toxic message",
   message |-> text,
   time |-> t]

\* const rpt = { reporterId: userId,
\*   reportedId: activeConnections.get(userId)?.partnerId || null,
\*   reportedIp: activeConnections.get(userId)?.socket?.ip || null, ... }
autoReport(ac, userId, text, t) ==
  [reporterId |-> userId,
   reportedId |-> IF has(ac, userId) THEN ac[userId].partnerId ELSE Null,
   reportedIp |-> IF has(ac, userId) THEN clientIp(ac[userId].socket) ELSE Null,
   reason |-> "Auto moderation: toxic message",
   message |-> text,
   time |-> t]

\* case 'send_message'
SendMessage(i, text) ==
  /\ Receiving(i)
  /\ ev' = Event("send_message", i, text)
  /\ IF text = <<>>
     THEN /\ sent' = <<>>
          /\ UNCHANGED <<reports, oldReports>>
     ELSE IF containsBadWord(BAD_WORDS, text)
     THEN LET rpt == autoReport(activeConnections, i, text, now)
              log == append([new |-> reports, old |-> oldReports], rpt, AUTO_CAP)
          IN /\ Len(reports) < MaxReports
             /\ sent' = <<Msg(i, "warning", Null)>>
             /\ reports' = log.new
             /\ oldReports' = log.old
     ELSE /\ sent' = sendToPartner(activeConnections, sock, i, text)
          /\ UNCHANGED <<reports, oldReports>>
  /\ UNCHANGED <<sock, waitingUser, activeConnections, bans, BAD_WORDS,
                 ADMIN_KEY, isAlive, displaced>>

\* case 'typing'
Typing(i, isTyping) ==
  /\ Receiving(i)
  /\ ev' = Event("typing", i, isTyping)
  /\ sent' = notifyTyping(activeConnections, sock, i, isTyping)
  /\ UNCHANGED <<sock, waitingUser, activeConnections, bans, reports, oldReports,
                 BAD_WORDS, ADMIN_KEY, isAlive, displaced>>

\* case 'video_offer' / 'video_answer' / 'ice_candidate'
SignalKinds == {"video_offer", "video_answer", "ice_candidate"}
Signal(i, kind, from) ==
  /\ Receiving(i)
  /\ LET msg == [type |-> kind, sdp |-> "sdp", from |-> from]
     IN /\ ev' = Event(kind, i, msg)
        /\ sent' = forwardToPartner(activeConnections, sock, i, msg)
  /\ UNCHANGED <<sock, waitingUser, activeConnections, bans, reports, oldReports,
                 BAD_WORDS, ADMIN_KEY, isAlive, displaced>>

\* case 'disconnect_chat'
DisconnectChat(i) ==
  /\ Receiving(i)
  /\ LET st == disconnectPair(store, sock, i)
     IN /\ activeConnections' = st.ac
        /\ waitingUser' = st.wu
        /\ sent' = st.out
  /\ ev' = Event("disconnect_chat", i, Null)
  /\ UNCHANGED <<sock, bans, reports, oldReports, BAD_WORDS, ADMIN_KEY, isAlive, displaced>>

\* case 'report_user'
ReportUser(i, reportedId, reportedIp, reason) ==
  /\ Receiving(i)
  /\ Len(reports) < MaxReports
  /\ LET entry == [reporterId |-> i,
                   reportedId |-> reportedId,
                   reportedIp |-> reportedIp,
                   reason |-> IF reason = "" THEN "user_report" ELSE reason,
                   message |-> Null,
                   time |-> now]
         log == append([new |-> reports, old |-> oldReports], entry, REPORT_CAP)
     IN /\ reports' = log.new
        /\ oldReports' = log.old
        /\ ev' = Event("report_user", i, entry)
  /\ sent' = <<Msg(i, "report_ack", Null)>>
  /\ UNCHANGED <<sock, waitingUser, activeConnections, bans, BAD_WORDS,
                 ADMIN_KEY, isAlive, displaced>>

\* seeded fault: the catch block closes the socket
Malformed_Fatal(i) ==
  /\ Receiving(i)
  /\ ev' = Event("unknown", i, Null)
  /\ sent' = <<>>
  /\ sock' = close(sock, i)
  /\ UNCHANGED <<waitingUser, activeConnections, bans, reports, oldReports,
                 BAD_WORDS, ADMIN_KEY, isAlive, displaced>>

\* default: unknown type (in this server also 'leave'), or JSON.parse throws
Malformed(i) ==
  /\ Receiving(i)
  /\ ev' = Event("unknown", i, Null)
  /\ sent' = <<>>
  /\ UNCHANGED <<sock, waitingUser, activeConnections, bans, reports, oldReports,
                 BAD_WORDS, ADMIN_KEY, isAlive, displaced>>

\* ------------------------------------------------------------------ admin
AdminKeys == {Undefined} \cup Keys     \* msg.adminKey of an envelope

\* msg.adminKey === process.env.ADMIN_KEY
authorized(adminKey) == adminKey = ADMIN_KEY

Quiet ==
  /\ sent' = <<>>
  /\ UNCHANGED <<sock, waitingUser, activeConnections, bans, reports, oldReports,
                 BAD_WORDS, ADMIN_KEY, isAlive, displaced>>

\* case 'get_user_count'
GetUserCount(i, adminKey) ==
  /\ Receiving(i)
  /\ ev' = Event("get_user_count", i, [adminKey |-> adminKey])
  /\ IF authorized(adminKey)
     THEN /\ sent' = <<Msg(i, "user_count", getOnlineCount(sock))>>
          /\ UNCHANGED <<sock, waitingUser, activeConnections, bans, reports,
                         oldReports, BAD_WORDS, ADMIN_KEY, isAlive, displaced>>
     ELSE Quiet

\* case 'get_reports'
GetReports(i, adminKey) ==
  /\ Receiving(i)
  /\ ev' = Event("get_reports", i, [adminKey |-> adminKey])
  /\ IF authorized(adminKey)
     THEN /\ sent' = <<Msg(i, "reports", [new |-> reports, old |-> oldReports])>>
          /\ UNCHANGED <<sock, waitingUser, activeConnections, bans, reports,
                         oldReports, BAD_WORDS, ADMIN_KEY, isAlive, displaced>>
     ELSE Quiet

\* case 'get_bans'
GetBans(i, adminKey) ==
  /\ Receiving(i)
  /\ ev' = Event("get_bans", i, [adminKey |-> adminKey])
  /\ IF authorized(adminKey)
     THEN /\ sent' = <<Msg(i, "bans", bans)>>
          /\ UNCHANGED <<sock, waitingUser, activeConnections, bans, reports,
                         oldReports, BAD_WORDS, ADMIN_KEY, isAlive, displaced>>
     ELSE Quiet

\* wss.clients.forEach(s => { if (s.ip === ip && s.readyState === OPEN) ... })
\* visited here in the order of the connection numbers
RECURSIVE dropIp(_, _, _, _)
dropIp(s, out, ip, k) ==
  IF k > NumIds THEN [s |-> s, out |-> out]
  ELSE IF k \in clients(s) /\ clientIp(k) = ip /\ readyState(s, k) = OPEN
       THEN dropIp(close(s, k), Append(out, Msg(k, "banned", "ip")), ip, k + 1)
       ELSE dropIp(s, out, ip, k + 1)

\* the part of ban_user that closes the connection named by userId
killConnection(ac, s, out, uid) ==
  IF uid # Null /\ has(ac, uid)
  THEN [s |-> close(s, ac[uid].socket),
        out |-> Append(out, Msg(ac[uid].socket, "banned", "admin"))]
  ELSE [s |-> s, out |-> out]

\* if (uid && !bans.userIds.includes(uid)) bans.userIds.push(uid); same for ip
addBans(b, uid, ip) ==
  [userIds |-> IF uid # Null THEN b.userIds \cup {uid} ELSE b.userIds,
   ips |-> IF ip # Null THEN b.ips \cup {ip} ELSE b.ips]

\* seeded fault: unban_user filters the identities only
removeBans_IdOnly(b, uid, ip) ==
  [userIds |-> IF uid # Null THEN b.userIds \ {uid} ELSE b.userIds,
   ips |-> b.ips]

\* if (uid) bans.userIds = bans.userIds.filter(x => x !== uid); same for ip
removeBans(b, uid, ip) ==
  [userIds |-> IF uid # Null THEN b.userIds \ {uid} ELSE b.userIds,
   ips |-> IF ip # Null THEN b.ips \ {ip} ELSE b.ips]

\* case 'ban_user'
BanUser(i, adminKey, uid, ip) ==
  /\ Receiving(i)
  /\ ev' = Event("ban_user", i, [adminKey |-> adminKey, userId |-> uid, ip |-> ip])
  /\ IF authorized(adminKey)
     THEN LET k1 == killConnection(activeConnections, sock,
                                   <<Msg(i, "ban_ack", Null)>>, uid)
              k2 == dropIp(k1.s, k1.out, ip, 1)
          IN /\ bans' = addBans(bans, uid, ip)
             /\ Cardinality(bans'.userIds) + Cardinality(bans'.ips) <= MaxBans
             /\ sock' = k2.s
             /\ sent' = k2.out
             /\ UNCHANGED <<waitingUser, activeConnections, reports, oldReports,
                            BAD_WORDS, ADMIN_KEY, isAlive, displaced>>
     ELSE Quiet

\* case 'unban_user'
UnbanUser(i, adminKey, uid, ip) ==
  /\ Receiving(i)
  /\ ev' = Event("unban_user", i, [adminKey |-> adminKey, userId |-> uid, ip |-> ip])
  /\ IF authorized(adminKey)
     THEN /\ bans' = removeBans(bans, uid, ip)
          /\ sent' = <<Msg(i, "unban_ack", Null)>>
          /\ UNCHANGED <<sock, waitingUser, activeConnections, reports, oldReports,
                         BAD_WORDS, ADMIN_KEY, isAlive, displaced>>
     ELSE Quiet

\* -------------------------------------------------------------- transport
\* the peer closes or the path drops: readyState leaves OPEN, 'close' follows
PeerClose(i) ==
  /\ sock[i] = "OPEN"
  /\ sock' = [sock EXCEPT ![i] = "HALF"]
  /\ ev' = Event("peer_close", i, Null)
  /\ sent' = <<>>
  /\ UNCHANGED <<waitingUser, activeConnections, bans, reports, oldReports,
                 BAD_WORDS, ADMIN_KEY, isAlive, displaced>>

\* socket.on('error'): the transport fails, 'close' follows
ErrorEvent(i) ==
  /\ sock[i] \in {"OPEN", "CLOSING"}
  /\ sock' = [sock EXCEPT ![i] = "HALF"]
  /\ LET st == handleDisconnection(store, sock', i)
     IN /\ activeConnections' = st.ac
        /\ waitingUser' = st.wu
        /\ sent' = st.out
  /\ ev' = Event("error", i, Null)
  /\ UNCHANGED <<bans, reports, oldReports, BAD_WORDS, ADMIN_KEY, isAlive, displaced>>

\* socket.on('close'); a connection refused at connect has no handler
CloseEvent(i) ==
  /\ sock[i] \in {"CLOSING", "HALF", "REFUSED"}
  /\ sock' = [sock EXCEPT ![i] = "CLOSED"]
  /\ LET st == IF sock[i] = "REFUSED" THEN store
               ELSE handleDisconnection(store, sock', i)
     IN /\ activeConnections' = st.ac
        /\ waitingUser' = st.wu
        /\ sent' = st.out
  /\ ev' = Event("close", i, Null)
  /\ UNCHANGED <<bans, reports, oldReports, BAD_WORDS, ADMIN_KEY, isAlive, displaced>>

\* ------------------------------------------- the handlers of part_002
\* case 'disconnect_chat' and case 'leave' of part_002; the label's arg
\* records whether the sender occupied the waiting slot
Unpair_002(type, i) ==
  /\ Receiving(i)
  /\ LET st == disconnectPair_002(store, sock, i)
     IN /\ activeConnections' = st.ac
        /\ waitingUser' = st.wu
        /\ sent' = st.out
  /\ ev' = Event(type, i, [waiting |-> waitingUser.id = i])
  /\ UNCHANGED <<sock, bans, reports, oldReports, BAD_WORDS, ADMIN_KEY, isAlive,
                 displaced>>

DisconnectChat_002(i) == Unpair_002("disconnect_chat", i)

Leave_002(i) == Unpair_002("leave", i)

ErrorEvent_002(i) ==
  /\ sock[i] \in {"OPEN", "CLOSING"}
  /\ sock' = [sock EXCEPT ![i] = "HALF"]
  /\ LET st == handleDisconnection_002(store, sock', i)
     IN /\ activeConnections' = st.ac
        /\ waitingUser' = st.wu
        /\ sent' = st.out
  /\ ev' = Event("error", i, Null)
  /\ UNCHANGED <<bans, reports, oldReports, BAD_WORDS, ADMIN_KEY, isAlive,
                 displaced>>

CloseEvent_002(i) ==
  /\ sock[i] \in {"CLOSING", "HALF", "REFUSED"}
  /\ sock' = [sock EXCEPT ![i] = "CLOSED"]
  /\ LET st == IF sock[i] = "REFUSED" THEN store
               ELSE handleDisconnection_002(store, sock', i)
     IN /\ activeConnections' = st.ac
        /\ waitingUser' = st.wu
        /\ sent' = st.out
  /\ ev' = Event("close", i, Null)
  /\ UNCHANGED <<bans, reports, oldReports, BAD_WORDS, ADMIN_KEY, isAlive,
                 displaced>>

\* ----------------------------------------------------------- heartbeat
\* socket.terminate(): the socket is destroyed, its 'close' event follows
terminate(s, i) ==
  IF s[i] \in {"OPEN", "CLOSING"} THEN [s EXCEPT ![i] = "HALF"] ELSE s

\* seeded fault: the cycle pings without clearing isAlive
heartbeat_NoReset(s, alive) ==
  [s |-> [i \in Ids |-> IF i \in clients(s) /\ has(alive, i) /\ alive[i] = FALSE
                        THEN terminate(s, i)[i] ELSE s[i]],
   alive |-> alive]

\* one cycle: wss.clients.forEach(s => { if (s.isAlive === false) return
\* s.terminate(); s.isAlive = false; s.ping(); })
heartbeat(s, alive) ==
  [s |-> [i \in Ids |-> IF i \in clients(s) /\ has(alive, i) /\ alive[i] = FALSE
                        THEN terminate(s, i)[i] ELSE s[i]],
   alive |-> [i \in (DOMAIN alive) \cup clients(s) |->
                IF i \in clients(s) THEN FALSE ELSE alive[i]]]

\* the setInterval callback, every 30000 ms
Heartbeat ==
  /\ LET h == heartbeat(sock, isAlive)
     IN /\ sock' = h.s
        /\ isAlive' = h.alive
  /\ ev' = Event("heartbeat", Null, Null)
  /\ sent' = <<>>
  /\ UNCHANGED <<waitingUser, activeConnections, bans, reports, oldReports,
                 BAD_WORDS, ADMIN_KEY, displaced>>

\* socket.on('pong'): the peer answers a probe (or sends a pong unasked)
Pong(i) ==
  /\ Receiving(i)
  /\ isAlive' = set(isAlive, i, TRUE)
  /\ ev' = Event("pong", i, Null)
  /\ sent' = <<>>
  /\ UNCHANGED <<sock, waitingUser, activeConnections, bans, reports, oldReports,
                 BAD_WORDS, ADMIN_KEY, displaced>>

\* fs.watchFile(BADWORDS_PATH, ...)
ReloadBadWords(f) ==
  /\ BAD_WORDS' = loadBadWordsSet(f)
  /\ BAD_WORDS' # BAD_WORDS
  /\ ev' = Event("reload", Null, Null)
  /\ sent' = <<>>
  /\ UNCHANGED <<sock, waitingUser, activeConnections, bans, reports, oldReports,
                 ADMIN_KEY, isAlive, displaced>>

\* ---------------------------------------------------------- specification
OptId == {Null} \cup Ids
OptIp == {Null} \cup Ips

Next ==
  \/ \E i \in Ids : Connect(i)
  \/ \E i \in Ids : FindPartner(i)
  \/ \E i \in Ids, text \in MsgTexts : SendMessage(i, text)
  \/ \E i \in Ids, b \in BOOLEAN : Typing(i, b)
  \/ \E i \in Ids, kind \in SignalKinds, from \in OptId : Signal(i, kind, from)
  \/ \E i \in Ids : DisconnectChat(i)
  \/ \E i \in Ids, r \in OptId, a \in OptIp, why \in {"", "spam"} :
        ReportUser(i, r, a, why)
  \/ \E i \in Ids : Malformed(i)
  \/ \E i \in Ids, k \in AdminKeys : GetUserCount(i, k)
  \/ \E i \in Ids, k \in AdminKeys : GetReports(i, k)
  \/ \E i \in Ids, k \in AdminKeys : GetBans(i, k)
  \/ \E i \in Ids, k \in AdminKeys, uid \in OptId, ip \in OptIp : BanUser(i, k, uid, ip)
  \/ \E i \in Ids, k \in AdminKeys, uid \in OptId, ip \in OptIp : UnbanUser(i, k, uid, ip)
  \/ \E i \in Ids : PeerClose(i)
  \/ \E i \in Ids : ErrorEvent(i)
  \/ \E i \in Ids : CloseEvent(i)
  \/ \E f \in WordFiles : ReloadBadWords(f)
  \/ Heartbeat
  \/ \E i \in Ids : Pong(i)

Spec == Init /\ [][Next]_vars

\* The parts of the state are independent: reports and the word list are
\* read and written by moderation only, the ban sets by the admin handlers
\* and the connection handler. Each specification below runs the handlers a
\* group of properties is about, over every transport interleaving, and
\* leaves the other parts in their configuration at start.

\* matchmaking, relay, bans and the transport events
\* (badwords.json absent: { words: [] }, ADMIN_KEY set)
InitMatch == Init /\ oldReports = 0 /\ BAD_WORDS = {} /\ ADMIN_KEY = "k1"

NextMatch ==
  \/ \E i \in Active : Connect(i)
  \/ \E i \in Ids : FindPartner(i)
  \/ \E i \in Ids : SendMessage(i, <<"b">>)
  \/ \E i \in Ids : Typing(i, TRUE)
  \/ \E i \in Ids : Signal(i, "video_offer", Null)
  \/ \E i \in Ids : DisconnectChat(i)
  \/ \E i \in Ids, uid \in OptId, ip \in OptIp : BanUser(i, "k1", uid, ip)
  \/ \E i \in Ids : PeerClose(i)
  \/ \E i \in Ids : ErrorEvent(i)
  \/ \E i \in Ids : CloseEvent(i)

SpecMatch == InitMatch /\ [][NextMatch]_vars

\* matchmaking requests only, every connection accepted
NextFind ==
  \/ \E i \in Ids : Connect(i)
  \/ \E i \in Ids : FindPartner(i)

SpecFind == InitMatch /\ [][NextFind]_vars

\* the admin handlers under every credential, with ADMIN_KEY set or not
InitAdmin == Init /\ oldReports = 0 /\ BAD_WORDS = {}

NextAdmin ==
  \/ \E i \in Clients : Connect(i)
  \/ \E i \in Ids : FindPartner(i)
  \/ \E i \in Ids : ReportUser(i, Null, Null, "")
  \/ \E i \in Ids, k \in AdminKeys : GetUserCount(i, k)
  \/ \E i \in Ids, k \in AdminKeys : GetReports(i, k)
  \/ \E i \in Ids, k \in AdminKeys : GetBans(i, k)
  \/ \E i \in Ids, k \in AdminKeys, uid \in {Null, 1}, ip \in {Null, 1} : BanUser(i, k, uid, ip)
  \/ \E i \in Ids, k \in AdminKeys, uid \in {Null, 1}, ip \in {Null, 1} : UnbanUser(i, k, uid, ip)
  \/ \E i \in Ids : PeerClose(i)
  \/ \E i \in Ids : CloseEvent(i)

SpecAdmin == InitAdmin /\ [][NextAdmin]_vars

\* moderation and the report log, with every word list and log size
InitModeration == Init /\ ADMIN_KEY = "k1"

NextModeration ==
  \/ \E i \in Clients : Connect(i)
  \/ \E i \in Ids : FindPartner(i)
  \/ \E i \in Ids, text \in MsgTexts : SendMessage(i, text)
  \/ \E i \in Ids : DisconnectChat(i)
  \/ \E i \in Ids, why \in {"", "spam"} : ReportUser(i, Null, Null, why)
  \/ \E i \in Ids : PeerClose(i)
  \/ \E i \in Ids : CloseEvent(i)
  \/ \E f \in WordFiles : ReloadBadWords(f)

SpecModeration == InitModeration /\ [][NextModeration]_vars

\* banning and unbanning, and connections made before and after
NextBan ==
  \/ \E i \in Active : Connect(i)
  \/ \E i \in Ids : FindPartner(i)
  \/ \E i \in Ids, uid \in {Null, 2}, ip \in {Null, 1} : BanUser(i, "k1", uid, ip)
  \/ \E i \in Ids, uid \in {Null, 2}, ip \in {Null, 1} : UnbanUser(i, "k1", uid, ip)
  \/ \E i \in Ids : PeerClose(i)
  \/ \E i \in Ids : CloseEvent(i)

SpecBan == InitMatch /\ [][NextBan]_vars

\* teardown: pairs whose members' transports close, fail or are closed by
\* a ban; the 'close' event of a socket that has left OPEN is always emitted
NextTeardown ==
  \/ \E i \in Active : Connect(i)
  \/ \E i \in Ids : FindPartner(i)
  \/ \E i \in Ids : DisconnectChat(i)
  \/ \E i \in Ids, uid \in Ids : BanUser(i, "k1", uid, Null)
  \/ \E i \in Ids : PeerClose(i)
  \/ \E i \in Ids : ErrorEvent(i)
  \/ \E i \in Ids : CloseEvent(i)

SpecTeardown ==
  /\ InitMatch
  /\ [][NextTeardown]_vars
  /\ \A i \in Ids : WF_vars(CloseEvent(i))

\* the liveness monitor: probes, answers, and the sockets it terminates
NextHeartbeat ==
  \/ \E i \in Active : Connect(i)
  \/ \E i \in Ids : FindPartner(i)
  \/ Heartbeat
  \/ \E i \in Ids : Pong(i)
  \/ \E i \in Ids : CloseEvent(i)

SpecHeartbeat == InitMatch /\ [][NextHeartbeat]_vars

\* pairs, relay and leaving, with transports that close under the clients
NextRelay ==
  \/ \E i \in Active : Connect(i)
  \/ \E i \in Ids : FindPartner(i)
  \/ \E i \in Ids : SendMessage(i, <<"b">>)
  \/ \E i \in Ids : Typing(i, TRUE)
  \/ \E i \in Ids : Signal(i, "video_offer", Null)
  \/ \E i \in Ids : DisconnectChat(i)
  \/ \E i \in Ids : PeerClose(i)
  \/ \E i \in Ids : CloseEvent(i)

SpecRelay == InitMatch /\ [][NextRelay]_vars

\* signaling with every from value a client can put in the envelope
NextSignal ==
  \/ \E i \in Active : Connect(i)
  \/ \E i \in Ids : FindPartner(i)
  \/ \E i \in Ids : SendMessage(i, <<"b">>)
  \/ \E i \in Ids, b \in BOOLEAN : Typing(i, b)
  \/ \E i \in Ids, kind \in SignalKinds, from \in OptId : Signal(i, kind, from)
  \/ \E i \in Ids : DisconnectChat(i)
  \/ \E i \in Ids : PeerClose(i)
  \/ \E i \in Ids : CloseEvent(i)

SpecSignal == InitMatch /\ [][NextSignal]_vars

\* envelopes that do not parse or have no case, among valid ones
NextMalformed ==
  \/ \E i \in Active : Connect(i)
  \/ \E i \in Ids : FindPartner(i)
  \/ \E i \in Ids : Malformed(i)
  \/ \E i \in Ids : SendMessage(i, <<"b">>)
  \/ \E i \in Ids : DisconnectChat(i)
  \/ \E i \in Ids : PeerClose(i)
  \/ \E i \in Ids : CloseEvent(i)

SpecMalformed == InitMatch /\ [][NextMalformed]_vars

\* the server of part_002 (no admin handlers): matchmaking and leaving
NextLeave ==
  \/ \E i \in Active : Connect(i)
  \/ \E i \in Ids : FindPartner(i)
  \/ \E i \in Ids : DisconnectChat_002(i)
  \/ \E i \in Ids : Leave_002(i)
  \/ \E i \in Ids : PeerClose(i)
  \/ \E i \in Ids : ErrorEvent_002(i)
  \/ \E i \in Ids : CloseEvent_002(i)

SpecLeave == InitMatch /\ [][NextLeave]_vars

\* ============================================================ properties
partnerOf(a) == activeConnections[a].partnerId
open(i) == readyState(sock, i) = OPEN
Sends == {sent[k] : k \in 1..Len(sent)}
count(out, type, to) == Cardinality({k \in 1..Len(out) : out[k].type = type /\ out[k].to = to})
RelayTypes == {"message", "typing"} \cup SignalKinds
MessageKinds == {"find_partner", "send_message", "typing", "disconnect_chat",
                 "report_user", "unknown", "get_user_count", "get_reports",
                 "get_bans", "ban_user", "unban_user"} \cup SignalKinds
AdminKinds == {"get_user_count", "get_reports", "get_bans", "ban_user", "unban_user"}

\* C1: in every reachable state the pair table is symmetric: A has an entry
\* with partner B if and only if B has an entry with partner A.
PairTableSymmetric ==
  \A a \in DOMAIN activeConnections :
    /\ has(activeConnections, partnerOf(a))
    /\ partnerOf(partnerOf(a)) = a

\* C2: no message, typing or signaling payload is written to the connection
\* of an identity that ban_user has put in the banned-identity set.
BannedNeverRelayedTo ==
  \A m \in Sends : m.type \in RelayTypes => m.to \notin bans.userIds

\* C3: an authorized ban_user naming the identity of an open connection
\* sends it a banned notification and closes it, and an envelope of a
\* banned identity is not processed: no send, no change of the slot, the
\* pair table or the report log.
BanClosesAndSilences ==
  [][ /\ ( /\ ev'.type = "ban_user"
           /\ authorized(ev'.arg.adminKey)
           /\ ev'.arg.userId # Null
           /\ open(ev'.arg.userId) )
         => ( /\ sock'[ev'.arg.userId] # "OPEN"
              /\ count(sent', "banned", ev'.arg.userId) >= 1 )
      /\ ( /\ ev'.type \in MessageKinds
           /\ ev'.by \in bans.userIds )
         => ( /\ sent' = <<>>
              /\ UNCHANGED <<waitingUser, activeConnections, reports, oldReports>> )
    ]_vars

\* C4: an admin envelope whose adminKey is absent or differs from the
\* shared secret gets no response and changes nothing, for every admin kind
\* and whether or not ADMIN_KEY is configured.
UnauthorizedAdminIgnored ==
  [][ ( /\ ev'.type \in AdminKinds
        /\ (ev'.arg.adminKey = Undefined \/ ev'.arg.adminKey # ADMIN_KEY) )
      => ( /\ sent' = <<>>
           /\ UNCHANGED <<bans, reports, oldReports, waitingUser, activeConnections>> )
    ]_vars

\* same letter up to case
sameLetter(c, d) == c = d \/ {c, d} = {"a", "A"}
\* text contains the (non-empty) word w, compared case-insensitively
containsIgnoringCase(text, w) ==
  /\ w # <<>>
  /\ \E off \in 0..(Len(text) - Len(w)) :
       \A j \in 1..Len(w) : sameLetter(text[off + j], w[j])

\* C5: a send_message whose text contains a blocked substring, compared
\* case-insensitively, writes nothing to anyone but one warning to the
\* sender, and the report log gains exactly one entry, at its front.
BlockedMessageHandled ==
  [][ ( /\ ev'.type = "send_message"
        /\ \E w \in BAD_WORDS : containsIgnoringCase(ev'.arg, w) )
      => ( /\ sent' = <<Msg(ev'.by, "warning", Null)>>
           /\ Len(reports') = Len(reports) + 1
           /\ Tail(reports') = reports
           /\ reports'[1].reporterId = ev'.by
           /\ reports'[1].message = ev'.arg
           /\ oldReports' \in {oldReports, oldReports - 1}
           /\ Len(reports') + oldReports' >= Len(reports) + oldReports )
    ]_vars

\* C5 witness: a paired sender whose partner is open was warned and reported
BlockedMessageSeen ==
  /\ ev.type = "send_message"
  /\ \E w \in BAD_WORDS : containsIgnoringCase(ev.arg, w)
  /\ ev.arg # toLowerCase(ev.arg)
  /\ partnerOpen(activeConnections, sock, ev.by)
  /\ sent = <<Msg(ev.by, "warning", Null)>>
  /\ reports # <<>> /\ reports[1].reportedId = partnerOf(ev.by)

\* C6: the identity in the waiting slot has no pair-table entry and is not
\* the partner recorded in anyone's entry.
WaitingNotInPairTable ==
  waitingUser # NoUser =>
    /\ ~has(activeConnections, waitingUser.id)
    /\ \A a \in DOMAIN activeConnections : partnerOf(a) # waitingUser.id

\* C7: no identity is its own partner and no identity is the recorded
\* partner of two different identities.
OnePartnerEach ==
  /\ \A a \in DOMAIN activeConnections : partnerOf(a) # a
  /\ \A a, b \in DOMAIN activeConnections : a # b => partnerOf(a) # partnerOf(b)

\* C8: under find_partner requests of open connections only, at most one
\* identity occupies the waiting slot and the pair table is symmetric.
FindOnlyOneWaitingSymmetric ==
  /\ Cardinality({i \in Ids : waitingUser # NoUser /\ waitingUser.id = i}) <= 1
  /\ waitingUser # NoUser => waitingUser.socket = waitingUser.id
  /\ \A a \in Ids :
       has(activeConnections, a) =>
         /\ has(activeConnections, partnerOf(a))
         /\ partnerOf(partnerOf(a)) = a
         /\ partnerOf(a) # a

\* C8 witness: two pairs were made by find_partner requests alone
FindOnlyTwoPairs ==
  /\ Cardinality(DOMAIN activeConnections) = 4
  /\ ev.type = "find_partner"

\* C9: when an unpaired B issues find_partner while the slot holds another
\* identity A whose transport is open, in that step A leaves the slot, A and
\* B become each other's partner, each is sent exactly one partner_found
\* carrying the other's identity, and B is sent no searching.
SecondRequesterPairs ==
  [][ \A a, b \in Ids :
        ( /\ ev'.type = "find_partner" /\ ev'.by = b
          /\ ~has(activeConnections, b)
          /\ waitingUser # NoUser /\ waitingUser.id = a /\ a # b
          /\ open(waitingUser.socket) )
        => ( /\ waitingUser' = NoUser
             /\ has(activeConnections', a) /\ has(activeConnections', b)
             /\ activeConnections'[a].partnerId = b
             /\ activeConnections'[b].partnerId = a
             /\ {m \in Sends' : m.to = b} = {Msg(b, "partner_found", a)}
             /\ {m \in Sends' : m.to = a} = {Msg(a, "partner_found", b)}
             /\ count(sent', "partner_found", a) = 1
             /\ count(sent', "partner_found", b) = 1
             /\ Len(sent') = 2 )
    ]_vars

\* C9 witness: a find_partner has just paired the requester with the waiter
SecondRequesterPaired ==
  /\ ev.type = "find_partner"
  /\ has(activeConnections, ev.by)
  /\ Msg(ev.by, "partner_found", partnerOf(ev.by)) \in Sends
  /\ waitingUser = NoUser

\* C10: when the waiting client's transport is no longer open and a second
\* (unpaired) client issues find_partner, the second client is sent
\* searching and takes the slot, no pair-table entry is created, and the
\* first client is never paired.
StaleWaiterDisplaced ==
  /\ [][ \A a, b \in Ids :
           ( /\ ev'.type = "find_partner" /\ ev'.by = b
             /\ ~has(activeConnections, b)
             /\ waitingUser # NoUser /\ waitingUser.id = a /\ a # b
             /\ ~open(waitingUser.socket) )
           => ( /\ waitingUser' = [id |-> b, socket |-> b]
                /\ sent' = <<Msg(b, "searching", Null)>>
                /\ activeConnections' = activeConnections )
       ]_vars
  /\ [](\A a \in displaced : ~has(activeConnections, a))

\* C11: a new connection whose address is in the banned-address set is sent
\* exactly one banned notification and no connected notification and is
\* closed; afterwards nothing is ever written to it, and no step of it
\* (no envelope) sends anything or changes the waiting slot, the pair
\* table, the report log or the ban sets.
BannedAddressRefused ==
  [][ \A i \in Ids :
        /\ ( /\ ev'.type = "connection" /\ ev'.by = i
             /\ clientIp(i) \in bans.ips )
           => ( /\ sent' = <<Msg(i, "banned", Null)>>
                /\ sock'[i] \notin {"OPEN", "NONE"} )
        /\ ( sock[i] = "REFUSED" /\ clientIp(i) \in bans.ips )
           => ( /\ \A m \in Sends' : m.to # i
                /\ ev'.by = i
                   => ( /\ ev'.type = "close"
                        /\ sent' = <<>>
                        /\ UNCHANGED <<waitingUser, activeConnections, reports,
                                       oldReports, bans>> ) )
    ]_vars

\* C11 witness: a connection from a banned address has just been refused
\* while other clients are waiting or paired
BannedAddressRefusedSeen ==
  /\ ev.type = "connection"
  /\ clientIp(ev.by) \in bans.ips
  /\ ev.by \notin bans.userIds
  /\ sock[ev.by] = "REFUSED"
  /\ sent = <<Msg(ev.by, "banned", Null)>>
  /\ waitingUser # NoUser

\* A and B are paired with each other
mutual(a, b) ==
  /\ a # b
  /\ has(activeConnections, a) /\ partnerOf(a) = b
  /\ has(activeConnections, b) /\ partnerOf(b) = a

\* C12: after disconnect_chat from an identity A that is paired with B,
\* neither A nor B has a pair-table entry, whatever the state of B's
\* transport, and exactly one partner_disconnected is written to B if its
\* transport is open.
DisconnectChatUnpairsBoth ==
  [][ \A a, b \in Ids :
        ( ev'.type = "disconnect_chat" /\ ev'.by = a /\ mutual(a, b) )
        => ( /\ ~has(activeConnections', a)
             /\ ~has(activeConnections', b)
             /\ open(b) => count(sent', "partner_disconnected", b) = 1 )
    ]_vars

IdleDisconnectChatNoOp ==
  [][ \A a \in Ids :
        ( /\ ev'.type = "disconnect_chat" /\ ev'.by = a
          /\ ~has(activeConnections, a)
          /\ waitingUser.id # a )
        => ( /\ sent' = <<>>
             /\ UNCHANGED <<waitingUser, activeConnections, sock, bans, reports,
                            oldReports, isAlive>> )
    ]_vars

\* C14 witness: an idle client has just sent disconnect_chat while another
\* client occupies the slot and two more are paired
IdleDisconnectChatSeen ==
  /\ ev.type = "disconnect_chat"
  /\ ~has(activeConnections, ev.by)
  /\ waitingUser # NoUser /\ waitingUser.id # ev.by
  /\ sent = <<>>

\* C15: send_message with permitted text, typing and signaling from an
\* identity that has no pair-table entry, or whose partner's transport is
\* not open, write to no socket and leave the slot, the table, the report
\* log and the ban sets unchanged (the handler completes normally).
RelayWithoutOpenPartnerNoOp ==
  [][ \A a \in Ids :
        ( /\ ev'.type \in {"send_message", "typing"} \cup SignalKinds
          /\ ev'.by = a
          /\ ev'.type = "send_message"
             => ~containsBadWord(BAD_WORDS, ev'.arg)
          /\ \/ ~has(activeConnections, a)
             \/ ~open(partnerOf(a)) )
        => ( /\ sent' = <<>>
             /\ UNCHANGED <<waitingUser, activeConnections, reports, oldReports,
                            bans, sock>> )
    ]_vars

\* C15 witness: a paired client whose partner's transport has left OPEN has
\* just sent a message, and nothing was written
RelayToClosedPartnerSeen ==
  /\ ev.type = "send_message"
  /\ has(activeConnections, ev.by)
  /\ partnerOf(ev.by) # Null
  /\ ~open(partnerOf(ev.by))
  /\ has(activeConnections, partnerOf(ev.by))
  /\ sent = <<>>

\* C16: find_partner from an identity that already occupies the waiting
\* slot, or already has a pair-table entry, leaves the slot and the table
\* unchanged and sends no notification.
RepeatedFindPartnerNoOp ==
  [][ \A a \in Ids :
        ( /\ ev'.type = "find_partner" /\ ev'.by = a
          /\ waitingUser.id = a \/ has(activeConnections, a) )
        => ( /\ sent' = <<>>
             /\ UNCHANGED <<waitingUser, activeConnections>> )
    ]_vars

\* C17: starting from a log of at most REPORT_CAP entries, the log never
\* holds more than REPORT_CAP entries, its entries are in descending order
\* of time (the entries loaded at start are older than all written later
\* and follow them), and every write puts the new entry at the front,
\* keeps the order of the others and evicts, if anything, the last entry.
ReportLogBoundedNewestFirst ==
  /\ [](Len(reports) + oldReports <= REPORT_CAP)
  /\ [](\A k \in 1..(Len(reports) - 1) : reports[k].time > reports[k + 1].time)
  /\ [][ (reports' # reports \/ oldReports' # oldReports)
         => /\ ev'.type \in {"report_user", "send_message"}
            /\ reports' # <<>>
            /\ \/ /\ Tail(reports') = reports
                  /\ oldReports' \in {oldReports, oldReports - 1}
               \/ /\ oldReports = 0 /\ oldReports' = 0
                  /\ Tail(reports') = SubSeq(reports, 1, Len(reports) - 1)
     ]_vars

\* C17 witness: a log that started full has taken an auto-moderation report
\* and then a user report, and two of the loaded entries were evicted
ReportLogEvictedTwice ==
  /\ Len(reports) = 2
  /\ oldReports = REPORT_CAP - 2
  /\ reports[1].reason = "user_report"
  /\ reports[2].reason = "Auto moderation: toxic message"

\* C18: an authorized unban_user removes the named identity and address
\* from the ban sets, acknowledges, and changes no transport; a connection
\* whose identity and address are in neither ban set is admitted (it is
\* sent connected and is open), so a connection from an unbanned address
\* is; and banning then unbanning an identity and/or address that was not
\* banned gives back the ban sets as they were.
UnbanRestores ==
  /\ [][ ( ev'.type = "unban_user" /\ authorized(ev'.arg.adminKey) )
         => ( /\ bans'.userIds = bans.userIds \ {ev'.arg.userId}
              /\ bans'.ips = bans.ips \ {ev'.arg.ip}
              /\ sent' = <<Msg(ev'.by, "unban_ack", Null)>>
              /\ sock' = sock )
     ]_vars
  /\ [][ ( /\ ev'.type = "connection"
           /\ clientIp(ev'.by) \notin bans.ips
           /\ ev'.by \notin bans.userIds )
         => ( /\ sent' = <<Msg(ev'.by, "connected", ev'.by)>>
              /\ sock'[ev'.by] = "OPEN" )
     ]_vars
  /\ [](\A uid \in OptId, ip \in OptIp :
          ( uid \notin bans.userIds /\ ip \notin bans.ips )
          => removeBans(addBans(bans, uid, ip), uid, ip) = bans)

\* C18 witness: a connection was refused because its address was banned,
\* the address has been unbanned since, and a new connection from the same
\* address has just been admitted; the refused one did not reopen
AdmittedAfterUnban ==
  /\ ev.type = "connection"
  /\ sent = <<Msg(ev.by, "connected", ev.by)>>
  /\ bans.ips = {}
  /\ \E i \in Ids : /\ i # ev.by
                    /\ clientIp(i) = clientIp(ev.by)
                    /\ i \notin bans.userIds
                    /\ sock[i] = "REFUSED"

\* C19: when the close or error event of a connection has been handled, its
\* identity is neither the waiting-slot occupant nor a pair-table key; if
\* it was paired with a partner whose transport is open, the partner's
\* entry is deleted and one partner_disconnected is written to the partner
\* in that step; if the partner's transport was not open, nothing is
\* written to the partner and the partner eventually has no entry.
ClosedConnectionTornDown ==
  /\ [][ \A x \in Ids :
           ( ev'.type \in {"close", "error"} /\ ev'.by = x )
           => ( /\ waitingUser'.id # x
                /\ ~has(activeConnections', x)
                /\ \A b \in Ids :
                     mutual(x, b)
                     => IF open(b)
                        THEN /\ ~has(activeConnections', b)
                             /\ count(sent', "partner_disconnected", b) = 1
                        ELSE \A m \in Sends' : m.to # b )
     ]_vars
  /\ \A x, b \in Ids :
       ( /\ ev.type \in {"close", "error"} /\ ev.by = x
         /\ has(activeConnections, b) /\ partnerOf(b) = x /\ ~open(b) )
       ~> ~has(activeConnections, b)

\* C19 witness: the close of a paired connection has just been handled while
\* its partner's transport had already left OPEN; the partner still has its
\* entry and its own close is pending
ClosedBeforePartner ==
  /\ ev.type = "close"
  /\ ~has(activeConnections, ev.by)
  /\ \E b \in Ids : /\ has(activeConnections, b)
                    /\ partnerOf(b) = ev.by
                    /\ sock[b] \in {"CLOSING", "HALF"}

\* C20: isAlive of a connection is false exactly while a probe is unanswered
\* (only a cycle clears it, only the connection's pong sets it again); a
\* cycle terminates every connection whose probe of the previous cycle is
\* unanswered and no other, and probes the rest; so two cycles in a row with
\* no answer between them terminate every connection that was there at the
\* first, and a connection that answers before each cycle is never
\* terminated by the monitor.
MonitorClosesSilentOnly ==
  /\ [][ \A i \in Ids :
           /\ ( has(isAlive, i) /\ has(isAlive', i) /\ isAlive[i] # isAlive'[i] )
              => IF isAlive'[i] THEN ev'.type = "pong" /\ ev'.by = i
                 ELSE ev'.type = "heartbeat"
           /\ ( ev'.type = "heartbeat" /\ Receiving(i) )
              => IF isAlive[i]
                 THEN sock'[i] = sock[i] /\ isAlive'[i] = FALSE
                 ELSE sock'[i] = "HALF"
           /\ ( ev.type = "heartbeat" /\ ev'.type = "heartbeat" /\ Receiving(i) )
              => sock'[i] = "HALF"
     ]_vars
  /\ [](ev.type = "heartbeat"
        => \A i \in Ids : Receiving(i) => isAlive[i] = FALSE)

\* C20 witness: a cycle has just run; of two paired clients one, silent
\* since the cycle before, has been terminated (only the monitor leaves a
\* socket destroyed here) and the other has only been probed
SilentTerminatedOtherAlive ==
  /\ ev.type = "heartbeat"
  /\ \E i, j \in Ids : /\ mutual(i, j)
                       /\ sock[i] = "HALF"
                       /\ sock[j] = "OPEN"

\* C21: a video_offer, video_answer or ice_candidate envelope from an
\* identity paired with a partner whose transport is open is written once,
\* to the partner's socket and to no other, with the envelope's type and
\* every field as received except from, which is the sender's identity
\* whatever the envelope carried; message and typing deliveries have no
\* from field.
SignalingRelayedWithSender ==
  [][ /\ \A a, b \in Ids :
           ( ev'.type \in SignalKinds /\ ev'.by = a /\ mutual(a, b) /\ open(b) )
           => ( /\ Len(sent') = 1
                /\ sent'[1].to = b
                /\ sent'[1].type = ev'.type
                /\ DOMAIN sent'[1].arg = DOMAIN ev'.arg
                /\ sent'[1].arg.from = a
                /\ \A f \in (DOMAIN ev'.arg) \ {"from"} :
                     sent'[1].arg[f] = ev'.arg[f] )
      /\ ev'.type \in {"send_message", "typing"}
         => \A m \in Sends' :
              m.type \in {"message", "typing"} => "from" \notin DOMAIN m.arg
    ]_vars

\* C21 witness: an envelope that claimed to come from someone else has been
\* delivered to the sender's partner with the sender's identity in from
ForgedFromOverwritten ==
  /\ ev.type \in SignalKinds
  /\ ev.arg.from # Null /\ ev.arg.from # ev.by
  /\ has(activeConnections, ev.by)
  /\ mutual(ev.by, partnerOf(ev.by))
  /\ Len(sent) = 1
  /\ sent[1].to = partnerOf(ev.by)
  /\ sent[1].arg.from = ev.by

\* C22: an envelope that does not parse or whose kind has no case writes to
\* no socket and changes nothing: not the slot, the table, the report log,
\* the ban sets or any transport; the connection keeps receiving, and its
\* next find_partner or send_message is handled as if the envelope had not
\* come.
MalformedIgnored ==
  /\ [][ ev'.type = "unknown"
         => ( /\ sent' = <<>>
              /\ UNCHANGED <<waitingUser, activeConnections, reports, oldReports,
                             bans, sock, isAlive, BAD_WORDS>> )
     ]_vars
  /\ [](ev.type = "unknown" => Receiving(ev.by))
  /\ [][ ( ev.type = "unknown" /\ ev'.by = ev.by )
         => ( /\ ev'.type = "find_partner"
                 => LET st == findPartner(store, sock, ev.by)
                    IN /\ sent' = st.out
                       /\ activeConnections' = st.ac
                       /\ waitingUser' = st.wu
              /\ ev'.type = "send_message"
                 => sent' = sendToPartner(activeConnections, sock, ev.by, ev'.arg) )
     ]_vars

\* C22 witness: a paired client, with another client waiting, has just sent
\* an envelope without a case; its partner is open and nothing was written
MalformedFromPairedSeen ==
  /\ ev.type = "unknown"
  /\ has(activeConnections, ev.by)
  /\ open(ev.by) /\ open(partnerOf(ev.by))
  /\ waitingUser # NoUser
  /\ sent = <<>>

\* C23: the count sent for an authorized get_user_count is the number of
\* connections whose transport is open at that moment; connections refused
\* at connect, or closing, are not counted.
UserCountIsOpenConnections ==
  [][ ( ev'.type = "get_user_count" /\ authorized(ev'.arg.adminKey) )
      => sent' = <<Msg(ev'.by, "user_count",
                       Cardinality({i \in Ids : sock[i] = "OPEN"}))>>
    ]_vars

\* C24: the report written for a blocked message has the sender as
\* reporter, the offending text as message, and as reported identity the
\* partner the pair table records for the sender at that moment, or none
\* when the sender has no entry.
AutoReportNamesPartner ==
  [][ ( /\ ev'.type = "send_message"
        /\ \E w \in BAD_WORDS : containsIgnoringCase(ev'.arg, w) )
      => ( /\ reports' # <<>>
           /\ reports'[1].reporterId = ev'.by
           /\ reports'[1].message = ev'.arg
           /\ reports'[1].reason = "Auto moderation: toxic message"
           /\ reports'[1].reportedId =
                IF has(activeConnections, ev'.by)
                THEN partnerOf(ev'.by) ELSE Null )
    ]_vars

\* C24 witness: the log holds a blocked message's report that names the
\* sender's partner above one written while the same sender was unpaired
AutoReportsPairedAndUnpaired ==
  /\ ev.type = "send_message"
  /\ Len(reports) = 2
  /\ reports[1].reporterId = ev.by /\ reports[2].reporterId = ev.by
  /\ has(activeConnections, ev.by)
  /\ reports[1].reportedId = partnerOf(ev.by)
  /\ reports[1].message = ev.arg
  /\ reports[2].reportedId = Null
  /\ reports[2].reason = reports[1].reason

\* C25: every write to the report log, from report_user or from
\* auto-moderation, puts the new report at the front and drops a report
\* only when the log already holds REPORT_CAP entries; below that no
\* report is lost.
ReportsDroppedOnlyAtCap ==
  [][ (reports' # reports \/ oldReports' # oldReports)
      => ( /\ reports' # <<>>
           /\ Len(reports) + oldReports < REPORT_CAP
              => ( Tail(reports') = reports /\ oldReports' = oldReports )
           /\ Len(reports) + oldReports = REPORT_CAP
              => Len(reports') + oldReports' = REPORT_CAP )
    ]_vars

\* C26: whenever a message, typing or signaling notification that comes
\* from identity S is written to the socket of identity X, S and X are
\* paired with each other at that moment.
RelayOnlyBetweenPartners ==
  [][ \A m \in Sends' :
        ( /\ ev'.type \in {"send_message", "typing"} \cup SignalKinds
          /\ m.type \in RelayTypes )
        => mutual(ev'.by, m.to)
    ]_vars

\* C27: a disconnect_chat, close or error of identity A sends
\* partner_disconnected to another identity X, or removes X's entry, only
\* when X's own entry names A as its partner.
OnlyCurrentPartnerBreaksPair ==
  [][ \A a, x \in Ids :
        ( /\ ev'.type \in {"disconnect_chat", "close", "error"}
          /\ ev'.by = a /\ x # a
          /\ \/ count(sent', "partner_disconnected", x) > 0
             \/ has(activeConnections, x) /\ ~has(activeConnections', x) )
        => ( has(activeConnections, x) /\ partnerOf(x) = a )
    ]_vars

\* C28: when an open connection X that is paired with Y stops being paired
\* with Y in a step that is not X's own, partner_disconnected is written to
\* X in that step; and no open connection holds an entry whose partner has
\* no entry naming it back.
UnpairedClientIsTold ==
  /\ [][ \A x, y \in Ids :
           ( /\ mutual(x, y) /\ open(x)
             /\ ev'.by # x
             /\ ~( /\ has(activeConnections', x) /\ activeConnections'[x].partnerId = y
                   /\ has(activeConnections', y) /\ activeConnections'[y].partnerId = x ) )
           => count(sent', "partner_disconnected", x) > 0
     ]_vars
  /\ [](\A x \in Ids :
          ( open(x) /\ has(activeConnections, x) )
          => mutual(x, partnerOf(x)))

\* C29: a waiting-slot occupant whose transport is open leaves the slot
\* only by being paired with a requester, by its own disconnect_chat, or
\* in the step in which its own transport stops being open; no other
\* identity's find_partner takes the slot from it.
OpenWaiterKeepsSlot ==
  [][ \A w \in Ids :
        ( waitingUser.id = w /\ open(w) /\ waitingUser' # waitingUser )
        => \/ /\ ev'.type = "find_partner" /\ ev'.by # w
              /\ waitingUser' = NoUser
              /\ has(activeConnections', w)
              /\ activeConnections'[w].partnerId = ev'.by
              /\ has(activeConnections', ev'.by)
              /\ activeConnections'[ev'.by].partnerId = w
           \/ /\ ev'.type \in {"disconnect_chat", "leave"} /\ ev'.by = w
              /\ waitingUser' = NoUser
           \/ /\ ev'.by = w
              /\ sock'[w] # "OPEN"
              /\ waitingUser' = NoUser
    ]_vars

\* C29 witness: a paired client has just asked for a partner again while
\* another client with an open transport waits; the waiter kept the slot
OpenWaiterKeptSlot ==
  /\ ev.type = "find_partner"
  /\ has(activeConnections, ev.by)
  /\ sent = <<>>
  /\ waitingUser # NoUser
  /\ waitingUser.id # ev.by
  /\ open(waitingUser.id)

\* C30: in every report written by auto-moderation the reported address,
\* when present, is the address of the connection named as reported
\* identity (the sender's partner).
AutoReportAddressIsPartners ==
  [][ ( /\ ev'.type = "send_message"
        /\ \E w \in BAD_WORDS : containsIgnoringCase(ev'.arg, w)
        /\ reports' # <<>>
        /\ reports'[1].reportedIp # Null )
      => ( /\ reports'[1].reportedId # Null
           /\ reports'[1].reportedIp = clientIp(reports'[1].reportedId) )
    ]_vars

====
